---- MODULE Spec2Model ----
(***************************************************************************)
(* Knowledge Service: the resource-ingestion pipeline of usecases.py, run  *)
(* by the worker tasks of worker.py against the in-memory repositories of  *)
(* tests/mock_repos.py.  The task-dispatch port is modelled by its         *)
(* contract (repositories.TaskDispatchRepository): every call records one  *)
(* message; the six stage messages have a worker task that consumes them.  *)
(* The management use cases (subscriptions, collections, resources) and    *)
(* the query use cases of usecases.py run against the same repositories.   *)
(***************************************************************************)
EXTENDS Integers, Sequences, FiniteSets, TLC

\* ---------------------------------------------------------------- bounds
MaxResources == 1
MaxRedeliver == 2
MaxUploads == 2
MaxSubscriptions == 2
MaxCollections == 2
MaxSearches == 2

\* ------------------------------------------------------------ vocabulary
NoneVal == "None"

SubscriptionIds == {"s1"}
CollectionIds == {"c1"}
ResourceTypeIds == {"t1", "t2"}

\* File contents a client can upload (bytes); "" is the empty upload.
FileContents == {"", "txt", "pdf", "blank", "virus"}

\* The webhook lists a client can register.
WebhookLists == {<< >>, <<"a", "a", "b">>}

\* The paragraphs ("\n\n"-separated) of each file content.
Paragraphs(content) ==
    CASE content = "txt"   -> <<"a", "b">>
      [] content = "pdf"   -> <<"%PDF">>
      [] content = "blank" -> <<" ">>
      [] content = "virus" -> <<"VIRUS", "b">>
      [] OTHER             -> << >>

FileAnalysisResult == {"CLEAN", "INFECTED", "ERROR"}

StageKinds ==
    {"initiate_processing", "initiate_graph", "extract_text", "chunk_text",
     "update_embeddings", "ventilate_processing"}

NotificationKinds == {"quarantine", "validation_error"}

MessageKinds == StageKinds \cup NotificationKinds

ResourceIds == 0 .. (MaxResources - 1)

\* Search ids come from their own id space (MockSearchRepository).
SearchIds == {10 + n : n \in 0 .. (MaxSearches - 1)}

\* The dispatcher is handed a resource id or a search id.
Messages == MessageKinds \X (ResourceIds \cup SearchIds)

VARIABLES
    subscriptions,   \* MockSubscriptionRepository.subscriptions
    collections,     \* MockCollectionRepository.collections
    resource_types,  \* MockResourceTypeRepository.resource_types
    resources,       \* MockResourceRepository.resources
    quarantined,     \* MockVirusQuarantineRepository.quarantined
    resource_nodes,  \* MockGraphRepository.nodes, the resource nodes
    chunk_nodes,     \* MockGraphRepository.nodes, the chunk nodes
    notifications,   \* every message handed to the task dispatcher (a bag)
    queue,           \* the stage messages waiting for a worker (a bag)
    redelivered,     \* number of duplicate deliveries so far
    last,            \* the last use-case invocation and its result
    found_infected,  \* resources whose scan has returned INFECTED
    completed,       \* <<stage, resource>> pairs that returned normally
    deleted_nodes,   \* MockGraphRepository.nodes, those marked is_deleted
    search_requests, \* MockSearchRepository.search_requests
    search_results,  \* MockSearchRepository.search_results
    node_order,      \* MockGraphRepository.nodes, the order of its chunk keys
    reposet,         \* RepoSet._data
    workers          \* the use-case runs in progress, port call by port call

vars ==
    <<subscriptions, collections, resource_types, resources, quarantined,
      resource_nodes, chunk_nodes, notifications, queue, redelivered, last,
      found_infected, completed, deleted_nodes, search_requests,
      search_results, node_order, reposet, workers>>

\* The stores the ingest pipeline does not touch.
searchVars == <<search_requests, search_results>>

\* The registry and the runs in progress, which a whole use-case run leaves alone.
registryVars == <<reposet, workers>>

\* The stores and the dispatcher, which the registry operations leave alone.
storeVars ==
    <<subscriptions, collections, resource_types, resources, quarantined,
      resource_nodes, chunk_nodes, notifications, queue, redelivered,
      found_infected, completed, deleted_nodes, search_requests,
      search_results, node_order>>

\* domain.Resource with its defaults
Resource(collection_id, resource_type_id, file, callback_urls) ==
    [collection_id     |-> collection_id,
     resource_type_id  |-> resource_type_id,
     file              |-> file,
     file_type         |-> NoneVal,
     markdown_content  |-> NoneVal,
     callback_urls     |-> callback_urls,
     status            |-> "pending"]

\* What get_resource_by_id yields for an unknown id, as a record.
NullResource ==
    [collection_id     |-> NoneVal,
     resource_type_id  |-> NoneVal,
     file              |-> NoneVal,
     file_type         |-> NoneVal,
     markdown_content  |-> NoneVal,
     callback_urls     |-> << >>,
     status            |-> NoneVal]

\* requests.ResourceUploadRequest
ResourceUploadRequest(collection_id, resource_type_id, file_content, webhooks) ==
    [collection_id    |-> collection_id,
     resource_type_id |-> resource_type_id,
     file_content     |-> file_content,
     webhooks         |-> webhooks]

\* A run that was not handed an upload request.
NoRequest == ResourceUploadRequest(NoneVal, NoneVal, NoneVal, << >>)

\* The port results a run saw: none.
NoInput == [scan |-> NoneVal, port |-> NoneVal, failAt |-> -1]

NoInvocation ==
    [stage |-> NoneVal, rid |-> -1, input |-> NoInput, outcome |-> NoneVal,
     enq |-> << >>, pre |-> NullResource, found |-> FALSE,
     again |-> FALSE, before |-> 0, request |-> NoRequest,
     target |-> NoneVal, related |-> << >>, embedded |-> {}]

\* The keys RepoSet.__init__ allows: one per abstract class of repositories.py.
AllowableKeys ==
    {"file_manager_repository", "virus_quarantine_repository",
     "task_dispatch_repository", "graph_repository", "collection_repository",
     "resource_type_repository", "resource_repository",
     "subscription_repository", "dumb_repo", "language_model_repository",
     "chunking_repository", "search_repository"}

\* Two runs of one use case at a time.
WorkerIds == {1, 2}

\* What the stores hold, as one value a run can be started from.
Store(rs, q, rn, cn, no, cs) ==
    [resources |-> rs, quarantined |-> q, resource_nodes |-> rn,
     chunk_nodes |-> cn, node_order |-> no, collections |-> cs]

NoStore == Store(<< >>, {}, {}, << >>, << >>, << >>)

\* requests.NewCollectionRequest with the subscription it is posted to
NoCollectionRequest ==
    [subscription_id |-> NoneVal, name |-> NoneVal, resource_type_ids |-> {}]

\* A worker that runs nothing.
IdleWorker ==
    [stage |-> NoneVal, pc |-> "idle", rid |-> -1, scan |-> NoneVal,
     local |-> NullResource, todo |-> {}, request |-> NoCollectionRequest,
     raised |-> FALSE, pre |-> NoStore]

Init ==
    /\ subscriptions =
           [s \in SubscriptionIds |->
               [name |-> "S", is_active |-> TRUE, resource_types |-> {"t1"}]]
    /\ collections =
           [c \in CollectionIds |->
               [subscription_id |-> "s1", name |-> "C", resource_types |-> {"t1"}]]
    /\ resource_types = ResourceTypeIds
    /\ resources = << >>
    /\ quarantined = {}
    /\ resource_nodes = {}
    /\ chunk_nodes = << >>
    /\ notifications = [m \in Messages |-> 0]
    /\ queue = [m \in Messages |-> 0]
    /\ redelivered = 0
    /\ last = NoInvocation
    /\ found_infected = {}
    /\ completed = {}
    /\ deleted_nodes = {}
    /\ search_requests = << >>
    /\ search_results = << >>
    /\ node_order = << >>
    /\ reposet = [key \in AllowableKeys |-> NoneVal]
    /\ workers = [w \in WorkerIds |-> IdleWorker]

\* ------------------------------------------------------- task dispatcher
Msg(kind, rid) == <<kind, rid>>

Occurrences(msgs, m) == Cardinality({i \in 1 .. Len(msgs) : msgs[i] = m})

\* TaskDispatchRepository: each call hands one message to the dispatcher.
Dispatch(bag, msgs) == [m \in Messages |-> bag[m] + Occurrences(msgs, m)]

\* The attribute of the worker module CeleryTaskDispatchRespository calls
\* apply_async on for each kind of message.
TaskOf(kind) ==
    CASE kind = "initiate_processing"  -> "initiate_processing_of_new_resource"
      [] kind = "quarantine"           -> "send_quarantine_notification"
      [] kind = "validation_error"     -> "send_validation_error_notification"
      [] kind = "initiate_graph"       -> "initiate_resource_graph"
      [] kind = "extract_text"         -> "extract_plain_text_of_resource"
      [] kind = "chunk_text"           -> "chunk_resource_text"
      [] kind = "update_embeddings"    -> "update_chunks_with_embeddings"
      [] kind = "ventilate_processing" -> "ventilate_resource_processing"

\* The tasks worker.py defines.
WorkerTasks ==
    {"initiate_processing_of_new_resource", "initiate_resource_graph",
     "extract_plain_text_of_resource", "chunk_resource_text",
     "update_chunks_with_embeddings", "ventilate_resource_processing"}

\* Only the stage messages have a worker task (worker.py).
StageMessages(msgs) == SelectSeq(msgs, LAMBDA m : m[1] \in StageKinds)

\* A worker is handed a waiting message, or (delivery is at-least-once) a
\* message it has been handed before.
CanDeliver(kind, rid, redeliver) ==
    IF redeliver
    THEN notifications[Msg(kind, rid)] > 0 /\ redelivered < MaxRedeliver
    ELSE queue[Msg(kind, rid)] > 0

Taken(kind, rid, redeliver) ==
    IF redeliver THEN queue ELSE [queue EXCEPT ![Msg(kind, rid)] = @ - 1]

\* Two runs got the same answers from the ports both of them asked.
SameAnswers(i1, i2) ==
    /\ (i1.scan = NoneVal \/ i2.scan = NoneVal \/ i1.scan = i2.scan)
    /\ (i1.port = NoneVal \/ i2.port = NoneVal \/ i1.port = i2.port)
    /\ i1.failAt = i2.failAt

\* The record of one use-case run: what it was given, what it found, what it
\* returned and dispatched, and whether it repeats the run before it.
Invocation(stage, rid, input, outcome, enq) ==
    [stage |-> stage, rid |-> rid, input |-> input, outcome |-> outcome,
     enq |-> enq,
     pre |-> IF rid \in DOMAIN resources THEN resources[rid] ELSE NullResource,
     found |-> rid \in DOMAIN resources,
     again |-> last.stage = stage /\ last.rid = rid /\ SameAnswers(last.input, input),
     before |-> Len(StageMessages(last.enq)),
     request |-> NoRequest,
     target |-> NoneVal,
     related |-> << >>,
     embedded |-> {}]

\* The bookkeeping of one worker task run: the message is consumed, the
\* messages the use case dispatched are queued, the result is recorded.
TaskDelivered(stage, rid, redeliver, outcome, enq) ==
    /\ notifications' = Dispatch(notifications, enq)
    /\ queue' = Dispatch(Taken(stage, rid, redeliver), StageMessages(enq))
    /\ redelivered' = IF redeliver THEN redelivered + 1 ELSE redelivered
    /\ completed' =
           IF outcome = "raised" THEN completed
           ELSE completed \cup {<<stage, rid>>}

TaskRun(stage, rid, redeliver, input, outcome, enq) ==
    /\ TaskDelivered(stage, rid, redeliver, outcome, enq)
    /\ last' = Invocation(stage, rid, input, outcome, enq)

\* ------------------------------------------------------------ file manager
\* MockFileManagerRepository.scan_for_viruses, and the ERROR result the port
\* may return for any file.
scan_for_viruses(file) ==
    IF file = "virus" THEN {"INFECTED", "ERROR"} ELSE {"CLEAN", "ERROR"}

detect_file_type(file) ==
    IF file = "pdf" THEN "application/pdf" ELSE "text/plain"

\* ------------------------------------------------ PostNewResourceToCollection
create_new_resource(collection_id, resource_type_id, file, callback_urls) ==
    Resource(collection_id, resource_type_id, file, callback_urls)

\* An upload that accepts any resource type for a collection that exists.
AcceptedWithAnyType(collection_id, resource_type_id) ==
    collection_id \in DOMAIN collections

\* The checks of execute before it creates the resource: the collection
\* exists, the resource type exists and the collection allows it.
Accepted(collection_id, resource_type_id) ==
    /\ collection_id \in DOMAIN collections
    /\ resource_type_id \in resource_types
    /\ resource_type_id \in collections[collection_id].resource_types

PostNewResourceToCollection(collection_id, resource_type_id, file_content, webhooks) ==
    LET rid == Cardinality(DOMAIN resources)
        accepted == Accepted(collection_id, resource_type_id)
        enq == IF accepted THEN <<Msg("initiate_processing", rid)>> ELSE << >>
    IN
    /\ rid < MaxResources
    /\ notifications[Msg("initiate_processing", rid)] < MaxUploads
    /\ resources' =
           IF accepted
           THEN (rid :> create_new_resource(collection_id, resource_type_id,
                                             file_content, webhooks)) @@ resources
           ELSE resources
    /\ notifications' = Dispatch(notifications, enq)
    /\ queue' = Dispatch(queue, enq)
    /\ last' = [Invocation("post_new_resource", rid, NoInput,
                           IF accepted THEN "response" ELSE "raised", enq)
                   EXCEPT !.request =
                       ResourceUploadRequest(collection_id, resource_type_id,
                                             file_content, webhooks)]
    /\ UNCHANGED <<deleted_nodes, search_requests, search_results>>
    /\ UNCHANGED <<subscriptions, collections, resource_types, quarantined,
                   resource_nodes, chunk_nodes, redelivered, found_infected,
                   completed>>
    /\ UNCHANGED <<node_order, registryVars>>

\* -------------------------------------------- InitiateProcessingOfNewResource
\* A run that quarantines the resource but leaves its file in the store.
InfectedResourceKeepsFile(resource) == resource

\* The resource as stored after an INFECTED scan.
InfectedResource(resource) == [resource EXCEPT !.file = NoneVal]

\* A run that detects the MIME type without storing it.
DetectedResourceNotStored(resource) == resource

\* The resource as stored after its MIME type was detected.
DetectedResource(resource) ==
    [resource EXCEPT !.file_type = detect_file_type(resource.file)]

InfectedDispatch(rid) == <<Msg("quarantine", rid)>>

InvalidFormatDispatch(rid) == << >>

InitiateDispatch(rid) == <<Msg("initiate_graph", rid)>>

\* Whether execute gets as far as the virus scan.
Scannable(rid) ==
    /\ rid \in DOMAIN resources
    /\ resources[rid].file \notin {NoneVal, ""}

\* The port results one run can see: the scan, and validate_file_format's
\* answer when the file type is already known.
InitiateInputs(rid) ==
    IF ~Scannable(rid) THEN {NoInput}
    ELSE {[scan |-> s, port |-> v, failAt |-> -1] :
             s \in scan_for_viruses(resources[rid].file),
             v \in {NoneVal, "True", "False"}}

InitiateProcessingOfNewResource(rid, redeliver) ==
    /\ CanDeliver("initiate_processing", rid, redeliver)
    /\ \E input \in InitiateInputs(rid) :
         LET resource == IF rid \in DOMAIN resources THEN resources[rid] ELSE NullResource
             infected == Scannable(rid) /\ input.scan = "INFECTED"
             detects == Scannable(rid) /\ ~infected /\ resource.file_type = NoneVal
             validates == Scannable(rid) /\ ~infected /\ resource.file_type # NoneVal
             invalid == validates /\ input.port = "False"
             ok == Scannable(rid) /\ ~infected /\ ~invalid
         IN
         /\ (input.port # NoneVal) <=> validates
         /\ resources' =
                IF infected THEN [resources EXCEPT ![rid] = InfectedResource(resource)]
                ELSE IF detects THEN [resources EXCEPT ![rid] = DetectedResource(resource)]
                ELSE resources
         /\ quarantined' = IF infected THEN quarantined \cup {rid} ELSE quarantined
         /\ found_infected' = IF infected THEN found_infected \cup {rid} ELSE found_infected
         /\ TaskRun("initiate_processing", rid, redeliver, input,
                    IF ok THEN "None" ELSE "raised",
                    IF infected THEN InfectedDispatch(rid)
                    ELSE IF invalid THEN InvalidFormatDispatch(rid)
                    ELSE IF ok THEN InitiateDispatch(rid)
                    ELSE << >>)
    /\ UNCHANGED <<deleted_nodes, search_requests, search_results>>
    /\ UNCHANGED <<subscriptions, collections, resource_types, resource_nodes,
                   chunk_nodes>>
    /\ UNCHANGED <<node_order, registryVars>>

\* ----------------------------------------------------- InitialiseResourceGraph
\* A graph stage that hands the resource straight to chunking.
GraphDispatchSkipsExtract(rid) == <<Msg("chunk_text", rid)>>

GraphDispatch(rid) == <<Msg("extract_text", rid)>>

\* MockGraphRepository.upsert_resource_node
upsert_resource_node(nodes, rid) == nodes \cup {rid}

\* The node upsert_resource_node stores is the stored resource object, which
\* has no is_deleted attribute.
upserted_node(deleted, rid) == deleted \ {rid}

InitialiseResourceGraph(rid, redeliver) ==
    /\ CanDeliver("initiate_graph", rid, redeliver)
    /\ LET found == rid \in DOMAIN resources
           resource == IF found THEN resources[rid] ELSE NullResource
           ok == /\ found
                 /\ resource.file \notin {NoneVal, ""}
                 /\ resource.file_type \notin {NoneVal, ""}
                 /\ resource.collection_id \in DOMAIN collections
                 /\ collections[resource.collection_id].subscription_id
                        \in DOMAIN subscriptions
       IN
       /\ resource_nodes' =
              IF ok THEN upsert_resource_node(resource_nodes, rid)
              ELSE resource_nodes
       /\ deleted_nodes' =
              IF ok THEN upserted_node(deleted_nodes, rid) ELSE deleted_nodes
       /\ TaskRun("initiate_graph", rid, redeliver, NoInput,
                  IF ok THEN "None" ELSE "raised",
                  IF ok THEN GraphDispatch(rid) ELSE << >>)
    /\ UNCHANGED searchVars
    /\ UNCHANGED <<subscriptions, collections, resource_types, resources,
                   quarantined, chunk_nodes, found_infected>>
    /\ UNCHANGED <<node_order, registryVars>>

\* -------------------------------------------------- ExtractPlainTextOfResource
\* An extraction stage that dispatches its successor twice.
ExtractDispatchTwice(rid) == <<Msg("chunk_text", rid), Msg("chunk_text", rid)>>

ExtractDispatch(rid) == <<Msg("chunk_text", rid)>>

\* MockFileManagerRepository.extract_markdown_content
extract_markdown_content(resource) ==
    [resource EXCEPT !.markdown_content = resource.file]

\* An extraction stage without the skip for a resource already extracted.
ExtractsAgain(rid) ==
    /\ rid \in DOMAIN resources
    /\ resources[rid].file_type # NoneVal

\* Whether execute gets as far as calling the extraction port.
Extracts(rid) ==
    /\ rid \in DOMAIN resources
    /\ resources[rid].markdown_content = NoneVal
    /\ resources[rid].file_type # NoneVal

\* The extraction succeeds or raises; it cannot succeed without a file.
ExtractInputs(rid) ==
    IF ~Extracts(rid) THEN {NoInput}
    ELSE {[scan |-> NoneVal, port |-> v, failAt |-> -1] :
             v \in IF resources[rid].file = NoneVal THEN {"False"}
                   ELSE {"True", "False"}}

ExtractPlainTextOfResource(rid, redeliver) ==
    /\ CanDeliver("extract_text", rid, redeliver)
    /\ \E input \in ExtractInputs(rid) :
         LET found == rid \in DOMAIN resources
             resource == IF found THEN resources[rid] ELSE NullResource
             skips == found /\ resource.markdown_content # NoneVal
             extracted == Extracts(rid) /\ input.port = "True"
         IN
         /\ resources' =
                IF extracted
                THEN [resources EXCEPT ![rid] = extract_markdown_content(resource)]
                ELSE resources
         /\ TaskRun("extract_text", rid, redeliver, input,
                    IF skips \/ extracted THEN "None" ELSE "raised",
                    IF skips \/ extracted THEN ExtractDispatch(rid) ELSE << >>)
    /\ UNCHANGED <<deleted_nodes, search_requests, search_results>>
    /\ UNCHANGED <<subscriptions, collections, resource_types, quarantined,
                   resource_nodes, chunk_nodes, found_infected>>
    /\ UNCHANGED <<node_order, registryVars>>

\* ----------------------------------------------------------- ChunkResourceText
ChunkDispatch(rid) == <<Msg("update_embeddings", rid)>>

\* A chunk node that has no embedding attribute yet.
NoEmbedding == << >>

\* MockChunkingRepository.chunk_resource: one chunk per non-blank paragraph,
\* its id and sequence taken from the paragraph's index.
chunk_resource(rid, resource) ==
    LET ps == Paragraphs(resource.markdown_content)
        ids == {<<rid, i - 1>> : i \in {j \in 1 .. Len(ps) : ps[j] # " "}}
    IN [id \in ids |->
           [resource_id |-> rid, sequence |-> id[2],
            extract |-> ps[id[2] + 1], embedding |-> NoEmbedding]]

\* A graph that creates a second node for a chunk it already holds.
create_chunk_nodes_again(nodes, chunks) ==
    LET held == DOMAIN chunks \cap DOMAIN nodes
        fresh == [id \in DOMAIN chunks \ held |-> chunks[id]]
        again == [id \in {<<k[1], k[2] + 2>> : k \in held} |->
                     chunks[<<id[1], id[2] - 2>>]]
    IN fresh @@ again @@ nodes

\* MockGraphRepository.create_chunk_nodes
create_chunk_nodes(nodes, chunks) == chunks @@ nodes

\* The position of a chunk in the list the graph returns (creation order).
Position(ids, id) == Cardinality({other \in ids : other[2] < id[2]})

\* The chunker's list of chunks, as the list of their ids.
ChunkList(ids) ==
    [i \in 1 .. Cardinality(ids) |-> CHOOSE id \in ids : Position(ids, id) = i - 1]

\* The keys of MockGraphRepository.nodes after create_chunk_nodes: a dict
\* keeps a key where it was first inserted and appends a new one.
created_order(order, chunks) ==
    order \o SelectSeq(ChunkList(DOMAIN chunks),
                       LAMBDA id : \A i \in 1 .. Len(order) : order[i] # id)

\* Whether execute gets as far as calling the chunker.
Chunks(rid) ==
    /\ rid \in DOMAIN resources
    /\ resources[rid].markdown_content \notin {NoneVal, ""}
    /\ resources[rid].resource_type_id \in resource_types

\* Chunking and chunk-node creation succeed or raise.
ChunkInputs(rid) ==
    IF ~Chunks(rid) THEN {NoInput}
    ELSE {[scan |-> NoneVal, port |-> v, failAt |-> -1] : v \in {"True", "False"}}

ChunkResourceText(rid, redeliver) ==
    /\ CanDeliver("chunk_text", rid, redeliver)
    /\ \E input \in ChunkInputs(rid) :
         LET ok == Chunks(rid) /\ input.port = "True" IN
         /\ chunk_nodes' =
                IF ok
                THEN create_chunk_nodes(chunk_nodes, chunk_resource(rid, resources[rid]))
                ELSE chunk_nodes
         /\ node_order' =
                IF ok
                THEN created_order(node_order, chunk_resource(rid, resources[rid]))
                ELSE node_order
         /\ TaskRun("chunk_text", rid, redeliver, input,
                    IF ok THEN "None" ELSE "raised",
                    IF ok THEN ChunkDispatch(rid) ELSE << >>)
    /\ UNCHANGED <<deleted_nodes, search_requests, search_results>>
    /\ UNCHANGED <<subscriptions, collections, resource_types, resources,
                   quarantined, resource_nodes, found_infected>>
    /\ UNCHANGED registryVars

\* -------------------------------------------------- UpdateChunksWithEmbeddings
EmbeddingsDispatch(rid) == <<Msg("ventilate_processing", rid)>>

\* MockLanguageModelRepository.generate_embedding
generate_embedding(text) == <<"hash", text>>

\* A graph that returns every chunk of the resource, embedded or not.
get_chunks_of_resource(rid) ==
    {id \in DOMAIN chunk_nodes : chunk_nodes[id].resource_id = rid}

\* MockGraphRepository.get_chunks_without_embeddings, as a set of chunk ids
chunks_without_embeddings(nodes, rid) ==
    {id \in DOMAIN nodes :
        /\ nodes[id].resource_id = rid
        /\ nodes[id].embedding = NoEmbedding}

get_chunks_without_embeddings(rid) == chunks_without_embeddings(chunk_nodes, rid)

\* A graph that drops the embedding it is given.
update_chunk_embedding_dropped(nodes, id, embedding) == nodes

\* MockGraphRepository.update_chunk_embedding
update_chunk_embedding(nodes, id, embedding) ==
    IF id \in DOMAIN nodes THEN [nodes EXCEPT ![id].embedding = embedding]
    ELSE nodes

\* The loop of execute over the chunks, stopped at position failAt when the
\* language model or the graph raises there (-1: nothing raises).
EmbedLoop(nodes, ids, failAt) ==
    [id \in DOMAIN nodes |->
        IF id \in ids /\ (failAt = -1 \/ Position(ids, id) < failAt)
        THEN update_chunk_embedding(nodes, id, generate_embedding(nodes[id].extract))[id]
        ELSE nodes[id]]

\* The chunks execute hands to generate_embedding: those of the list up to
\* the one where a port raises.
Embedded(ids, failAt) ==
    {id \in ids : failAt = -1 \/ Position(ids, id) <= failAt}

EmbeddingInputs(rid) ==
    {[scan |-> NoneVal, port |-> NoneVal, failAt |-> k] :
        k \in -1 .. (Cardinality(get_chunks_without_embeddings(rid)) - 1)}

UpdateChunksWithEmbeddings(rid, redeliver) ==
    /\ CanDeliver("update_embeddings", rid, redeliver)
    /\ \E input \in EmbeddingInputs(rid) :
         LET ids == get_chunks_without_embeddings(rid)
             ok == input.failAt = -1
             outcome == IF ids = {} THEN "True" ELSE IF ok THEN "None" ELSE "raised"
             enq == IF ids # {} /\ ok THEN EmbeddingsDispatch(rid) ELSE << >>
         IN
         /\ chunk_nodes' = EmbedLoop(chunk_nodes, ids, input.failAt)
         /\ TaskDelivered("update_embeddings", rid, redeliver, outcome, enq)
         /\ last' = [Invocation("update_embeddings", rid, input, outcome, enq)
                        EXCEPT !.embedded = Embedded(ids, input.failAt)]
    /\ UNCHANGED <<deleted_nodes, search_requests, search_results>>
    /\ UNCHANGED <<subscriptions, collections, resource_types, resources,
                   quarantined, resource_nodes, found_infected>>
    /\ UNCHANGED <<node_order, registryVars>>

\* -------------------------------------------------- VentilateResourceProcessing
\* execute hands the resource id to send_quarantine_notification and passes
\* its result (None) to run_until_complete, which raises TypeError.
VentilateDispatch(rid) == <<Msg("quarantine", rid)>>

VentilateResourceProcessing(rid, redeliver) ==
    /\ CanDeliver("ventilate_processing", rid, redeliver)
    /\ LET found == rid \in DOMAIN resources IN
       TaskRun("ventilate_processing", rid, redeliver, NoInput,
               IF found THEN "raised" ELSE "[]",
               IF found THEN VentilateDispatch(rid) ELSE << >>)
    /\ UNCHANGED <<deleted_nodes, search_requests, search_results>>
    /\ UNCHANGED <<subscriptions, collections, resource_types, resources,
                   quarantined, resource_nodes, chunk_nodes, found_infected>>
    /\ UNCHANGED <<node_order, registryVars>>

\* ------------------------------------------------------ management use cases
\* The ids the in-memory repositories hand out: the n-th id for a store
\* that holds n - 1 entries (str(UUID(int=len(store)))).
SubscriptionUuids == <<"s1", "s2", "s3", "s4">>
CollectionUuids == <<"c1", "c2", "c3", "c4">>

\* The record of a management call on the entry `id`.
Call(stage, id, outcome) ==
    [NoInvocation EXCEPT !.stage = stage, !.outcome = outcome, !.target = id]

\* dict.pop: the store without the entry `id`.
Without(store, id) == [k \in DOMAIN store \ {id} |-> store[k]]

\* MockSubscriptionRepository.create_new_subscription
create_new_subscription(name, resource_type_ids, status) ==
    (SubscriptionUuids[Cardinality(DOMAIN subscriptions) + 1] :>
        [name |-> name, is_active |-> status = "active",
         resource_types |-> resource_type_ids]) @@ subscriptions

PostNewSubscription(name, resource_type_ids, status) ==
    LET known == resource_type_ids \subseteq resource_types IN
    /\ Cardinality(DOMAIN subscriptions) < MaxSubscriptions
    /\ subscriptions' =
           IF known THEN create_new_subscription(name, resource_type_ids, status)
           ELSE subscriptions
    /\ last' = Call("post_new_subscription",
                    SubscriptionUuids[Cardinality(DOMAIN subscriptions) + 1],
                    IF known THEN "response" ELSE "False")
    /\ UNCHANGED <<collections, resource_types, resources, quarantined,
                   resource_nodes, chunk_nodes, notifications, queue,
                   redelivered, found_infected, completed, deleted_nodes,
                   search_requests, search_results>>
    /\ UNCHANGED <<node_order, registryVars>>

GetSubscriptionDetails(subscription_id) ==
    /\ last' = Call("get_subscription_details", subscription_id,
                    IF subscription_id \in DOMAIN subscriptions
                    THEN "response" ELSE "None")
    /\ UNCHANGED <<subscriptions, collections, resource_types, resources,
                   quarantined, resource_nodes, chunk_nodes, notifications,
                   queue, redelivered, found_infected, completed,
                   deleted_nodes, search_requests, search_results>>
    /\ UNCHANGED <<node_order, registryVars>>

\* A delete that reports success and keeps the subscription.
delete_subscription_kept(store, subscription_id) == store

\* MockSubscriptionRepository.delete_subscription: the store afterwards.
delete_subscription(store, subscription_id) == Without(store, subscription_id)

DeleteSubscription(subscription_id) ==
    /\ subscriptions' = delete_subscription(subscriptions, subscription_id)
    /\ last' = Call("delete_subscription", subscription_id,
                    IF subscription_id \in DOMAIN subscriptions
                    THEN "True" ELSE "False")
    /\ UNCHANGED <<collections, resource_types, resources, quarantined,
                   resource_nodes, chunk_nodes, notifications, queue,
                   redelivered, found_infected, completed, deleted_nodes,
                   search_requests, search_results>>
    /\ UNCHANGED <<node_order, registryVars>>

\* requests.NewCollectionRequest
NewCollectionRequest(name, resource_type_ids) ==
    [name |-> name, resource_type_ids |-> resource_type_ids]

\* A lookup that never finds a collection of that name.
get_collection_never_found(subscription_id, name) == {}

\* MockCollectionRepository.get_collection_by_subscription_and_name, as the
\* set of ids it can return (empty: None).
get_collection_by_subscription_and_name(subscription_id, name) ==
    {c \in DOMAIN collections :
        /\ collections[c].subscription_id = subscription_id
        /\ collections[c].name = name}

\* MockCollectionRepository.create_new_collection
create_new_collection(name, subscription_id, resource_type_ids) ==
    (CollectionUuids[Cardinality(DOMAIN collections) + 1] :>
        [subscription_id |-> subscription_id, name |-> name,
         resource_types |-> resource_type_ids]) @@ collections

PostNewCollectionToSubscription(subscription_id, name, resource_type_ids) ==
    LET found == subscription_id \in DOMAIN subscriptions
        valid == found /\ resource_type_ids
                             \subseteq subscriptions[subscription_id].resource_types
        existing == get_collection_by_subscription_and_name(subscription_id, name)
        creates == valid /\ existing = {}
    IN
    /\ Cardinality(DOMAIN collections) < MaxCollections
    /\ collections' =
           IF creates
           THEN create_new_collection(name, subscription_id, resource_type_ids)
           ELSE collections
    /\ last' = [Call("post_new_collection", subscription_id,
                     IF ~valid THEN "raised"
                     ELSE IF creates THEN "response" ELSE "None")
                   EXCEPT !.request = NewCollectionRequest(name, resource_type_ids)]
    /\ UNCHANGED <<subscriptions, resource_types, resources, quarantined,
                   resource_nodes, chunk_nodes, notifications, queue,
                   redelivered, found_infected, completed, deleted_nodes,
                   search_requests, search_results>>
    /\ UNCHANGED <<node_order, registryVars>>

\* MockCollectionRepository.delete_collection: the store afterwards.
delete_collection(store, collection_id) == Without(store, collection_id)

DeleteCollection(collection_id) ==
    /\ collections' = delete_collection(collections, collection_id)
    /\ last' = Call("delete_collection", collection_id,
                    IF collection_id \in DOMAIN collections
                    THEN "success" ELSE "failed")
    /\ UNCHANGED <<subscriptions, resource_types, resources, quarantined,
                   resource_nodes, chunk_nodes, notifications, queue,
                   redelivered, found_infected, completed, deleted_nodes,
                   search_requests, search_results>>
    /\ UNCHANGED <<node_order, registryVars>>

\* A soft delete that does not mark the node.
soft_delete_unmarked(deleted, rid) == deleted

\* soft_delete of the graph repository the DeleteResource tests use: the
\* node is kept and marked is_deleted.
soft_delete(deleted, rid) == deleted \cup {rid}

\* MockResourceRepository.delete_resource
delete_resource(store, rid) == Without(store, rid)

\* A delete that removes the resource before the graph was asked.
ResourcesAfterHardDelete(rid, softDeleted) == delete_resource(resources, rid)

\* The try block of DeleteResource.execute: the resource is removed only
\* after the soft delete returned, and when the store does not raise.
ResourcesAfterDelete(rid, softDeleted) ==
    IF softDeleted THEN delete_resource(resources, rid) ELSE resources

\* The graph raises (port = "False") or not; it always raises for a
\* resource it holds no node of. After it, the resource store deletes or
\* raises (port = "StoreError").
DeleteInputs(rid) ==
    {[scan |-> NoneVal, port |-> v, failAt |-> -1] :
        v \in IF rid \in resource_nodes THEN {"True", "False", "StoreError"}
              ELSE {"False"}}

DeleteResource(rid) ==
    \E input \in DeleteInputs(rid) :
       LET already == rid \in resource_nodes /\ rid \in deleted_nodes
           found == rid \in DOMAIN resources
           tries == ~already /\ found
           softDeleted == tries /\ input.port # "False"
           removed == tries /\ input.port = "True"
       IN
       /\ deleted_nodes' =
              IF softDeleted THEN soft_delete(deleted_nodes, rid)
              ELSE deleted_nodes
       /\ resources' =
              IF tries THEN ResourcesAfterDelete(rid, removed) ELSE resources
       /\ last' = Invocation("delete_resource", rid,
                             IF tries THEN input ELSE NoInput,
                             IF removed THEN "True" ELSE "False", << >>)
       /\ UNCHANGED <<subscriptions, collections, resource_types, quarantined,
                      resource_nodes, chunk_nodes, notifications, queue,
                      redelivered, found_infected, completed,
                      search_requests, search_results>>
    /\ UNCHANGED <<node_order, registryVars>>

\* ----------------------------------------------------------- query use cases
\* The query texts a client can send: empty, whitespace, a question.
Queries == {"", " ", "q"}

\* A validation that accepts any query text.
strip_kept(query) == "q"

\* str.strip
strip(query) == IF query \in {"", " "} THEN "" ELSE query

\* domain.SearchRequest with its defaults
SearchRequest(collection_id, query, callback_urls) ==
    [collection_id |-> collection_id, query |-> query,
     callback_urls |-> callback_urls, resource_ids |-> {},
     status |-> "pending"]

\* The query request a run was handed.
QueryRequest(query) == [query |-> query]

\* MockSearchRepository.save_search_request
NextSearchId == 10 + Cardinality(DOMAIN search_requests)

save_search_request(collection_id, query, callback_urls) ==
    (NextSearchId :> SearchRequest(collection_id, query, callback_urls))
        @@ search_requests

PostQueryOnCollecton(collection_id, query) ==
    LET accepted == collection_id \in DOMAIN collections /\ strip(query) # "" IN
    /\ Cardinality(DOMAIN search_requests) < MaxSearches
    /\ search_requests' =
           IF accepted THEN save_search_request(collection_id, query, << >>)
           ELSE search_requests
    /\ last' = [Call("post_query_on_collection", collection_id,
                     IF accepted THEN "response" ELSE "raised")
                   EXCEPT !.request = QueryRequest(query), !.rid = NextSearchId]
    /\ UNCHANGED <<subscriptions, collections, resource_types, resources,
                   quarantined, resource_nodes, chunk_nodes, notifications,
                   queue, redelivered, found_infected, completed,
                   deleted_nodes, search_results>>
    /\ UNCHANGED <<node_order, registryVars>>

PostQueryOnResource(resource_id, query, callback_urls) ==
    LET found == resource_id \in DOMAIN resources
        accepted == found /\ strip(query) # ""
    IN
    /\ Cardinality(DOMAIN search_requests) < MaxSearches
    /\ search_requests' =
           IF accepted
           THEN save_search_request(resources[resource_id].collection_id,
                                    query, callback_urls)
           ELSE search_requests
    /\ last' = [Call("post_query_on_resource", resource_id,
                     IF accepted THEN "response" ELSE "raised")
                   EXCEPT !.request = QueryRequest(query), !.rid = NextSearchId]
    /\ UNCHANGED <<subscriptions, collections, resource_types, resources,
                   quarantined, resource_nodes, chunk_nodes, notifications,
                   queue, redelivered, found_infected, completed,
                   deleted_nodes, search_results>>
    /\ UNCHANGED <<node_order, registryVars>>

\* What InitiateSearchRequest.execute hands to the dispatcher.
InitiateSearchDispatch(search_id) == <<Msg("quarantine", search_id)>>

\* dispatched: whether the dispatcher took the message or raised.
InitiateSearchRequest(search_id, dispatched) ==
    LET found == search_id \in DOMAIN search_requests
        enq == IF found /\ dispatched THEN InitiateSearchDispatch(search_id)
               ELSE << >>
    IN
    /\ notifications[Msg("quarantine", search_id)] < MaxUploads
    /\ notifications' = Dispatch(notifications, enq)
    /\ last' = [Call("initiate_search_request", search_id,
                     IF found /\ dispatched THEN "True" ELSE "False")
                   EXCEPT !.rid = search_id, !.enq = enq, !.found = found,
                          !.input = [scan |-> NoneVal,
                                     port |-> IF dispatched THEN "True" ELSE "False",
                                     failAt |-> -1]]
    /\ UNCHANGED <<subscriptions, collections, resource_types, resources,
                   quarantined, resource_nodes, chunk_nodes, queue,
                   redelivered, found_infected, completed, deleted_nodes,
                   search_requests, search_results>>
    /\ UNCHANGED <<node_order, registryVars>>

\* The score MockGraphRepository gives a chunk, in tenths: 0.9 to the id
\* "chunk-1" (written <<-1, 1>>, an id the chunker never makes), 0.8 to others.
score(id) == IF id[1] = -1 /\ id[2] = 1 THEN 9 ELSE 8

\* Where list.sort(key=score, reverse=True) puts the i-th element: after the
\* higher scores and after the equal scores that came before it.
SortedPosition(list, i) ==
    1 + Cardinality({j \in 1 .. Len(list) :
                        \/ score(list[j]) > score(list[i])
                        \/ score(list[j]) = score(list[i]) /\ j < i})

sort_by_score(list) ==
    [k \in 1 .. Len(list) |->
        list[CHOOSE i \in 1 .. Len(list) : SortedPosition(list, i) = k]]

\* MockGraphRepository.get_relevant_chunks: every chunk node of the graph,
\* in the order of the dict and then sorted by score.
get_relevant_chunks(search_id) == sort_by_score(node_order)

\* What IdentifyRelatedContent.execute stores as results of the search:
\* nothing, it returns the chunks in its response.
IdentifiedResults(search_id, chunks) == search_results

\* computed: whether the embedding and the similarities were computed or
\* one of them raised.
IdentifyRelatedContent(search_id, computed) ==
    LET found == search_id \in DOMAIN search_requests
        chunks == get_relevant_chunks(search_id)
        ok == found /\ chunks # << >> /\ computed
    IN
    /\ search_results' =
           IF ok THEN IdentifiedResults(search_id, chunks) ELSE search_results
    /\ last' = [Call("identify_related_content", search_id,
                     IF ok THEN "True" ELSE "False")
                   EXCEPT !.rid = search_id, !.found = found,
                          !.related = IF ok THEN chunks ELSE << >>,
                          !.input = [scan |-> NoneVal,
                                     port |-> IF computed THEN "True" ELSE "False",
                                     failAt |-> -1]]
    /\ UNCHANGED <<subscriptions, collections, resource_types, resources,
                   quarantined, resource_nodes, chunk_nodes, notifications,
                   queue, redelivered, found_infected, completed,
                   deleted_nodes, search_requests>>
    /\ UNCHANGED <<node_order, registryVars>>

\* MockSearchRepository.search_results.get(search_id, [])
ResultsOf(search_id) ==
    IF search_id \in DOMAIN search_results THEN search_results[search_id]
    ELSE << >>

IssueCredentials(query_id) ==
    /\ last' = [Call("issue_credentials", query_id,
                     IF query_id \in DOMAIN search_requests
                        /\ ResultsOf(query_id) # << >>
                     THEN "True" ELSE "False")
                   EXCEPT !.rid = query_id]
    /\ UNCHANGED <<subscriptions, collections, resource_types, resources,
                   quarantined, resource_nodes, chunk_nodes, notifications,
                   queue, redelivered, found_infected, completed,
                   deleted_nodes, search_requests, search_results>>
    /\ UNCHANGED <<node_order, registryVars>>

\* The response carries one QueryResult per stored result, ResultsOf.
GetQueryResult(search_id) ==
    /\ last' = [Call("get_query_result", search_id,
                     IF search_id \in DOMAIN search_requests
                     THEN "response" ELSE "None")
                   EXCEPT !.rid = search_id]
    /\ UNCHANGED <<subscriptions, collections, resource_types, resources,
                   quarantined, resource_nodes, chunk_nodes, notifications,
                   queue, redelivered, found_infected, completed,
                   deleted_nodes, search_requests, search_results>>
    /\ UNCHANGED <<node_order, registryVars>>

\* ------------------------------------------- use cases, port call by port call
\* A run of a use case holds what it has read (local, todo) and stands before
\* its next call of a store or of the dispatcher (pc). One step is that call
\* together with the computation up to the next one; S is what the stores
\* hold when the call is made.
Proceed(S, w, pc) ==
    [store |-> S, worker |-> [w EXCEPT !.pc = pc], enq |-> << >>]

\* The run raises.
Raise(S, w) ==
    [store |-> S, worker |-> [w EXCEPT !.pc = "done", !.raised = TRUE],
     enq |-> << >>]

\* The run hands messages to the dispatcher and returns, or raises after it.
Return(S, w, enq, raises) ==
    [store |-> S, worker |-> [w EXCEPT !.pc = "done", !.raised = raises],
     enq |-> enq]

\* get_resource_by_id: the run's own copy of the stored resource
Read(S, w) ==
    [w EXCEPT !.local = IF w.rid \in DOMAIN S.resources
                        THEN S.resources[w.rid] ELSE NullResource]

\* InitiateProcessingOfNewResource.execute
InitiateStep(S, w) ==
    CASE w.pc = "get" ->
           LET r == Read(S, w) IN
           IF r.local.file \in {NoneVal, ""} THEN Raise(S, r)
           ELSE IF w.scan = "INFECTED" THEN Proceed(S, r, "quarantine")
           ELSE IF r.local.file_type = NoneVal THEN Proceed(S, r, "set_file_type")
           ELSE Proceed(S, r, "dispatch")
      [] w.pc = "quarantine" ->
           Proceed([S EXCEPT !.quarantined = @ \cup {w.rid}],
                   [w EXCEPT !.local = InfectedResource(w.local)], "update")
      [] w.pc = "update" ->
           Proceed([S EXCEPT !.resources[w.rid] = w.local], w, "notify")
      [] w.pc = "notify" -> Return(S, w, InfectedDispatch(w.rid), TRUE)
      [] w.pc = "set_file_type" ->
           Proceed([S EXCEPT !.resources[w.rid].file_type =
                                 detect_file_type(w.local.file)],
                   w, "dispatch")
      [] OTHER -> Return(S, w, InitiateDispatch(w.rid), FALSE)

\* InitialiseResourceGraph.execute
GraphStep(S, w) ==
    CASE w.pc = "get" ->
           LET r == Read(S, w) IN
           IF \/ r.local.file \in {NoneVal, ""}
              \/ r.local.file_type = NoneVal
              \/ r.local.collection_id \notin DOMAIN S.collections
           THEN Raise(S, r)
           ELSE IF S.collections[r.local.collection_id].subscription_id
                       \notin DOMAIN subscriptions
           THEN Raise(S, r)
           ELSE Proceed(S, r, "upsert")
      [] w.pc = "upsert" ->
           Proceed([S EXCEPT !.resource_nodes = upsert_resource_node(@, w.rid)],
                   w, "dispatch")
      [] OTHER -> Return(S, w, GraphDispatch(w.rid), FALSE)

\* ExtractPlainTextOfResource.execute
ExtractStep(S, w) ==
    CASE w.pc = "get" ->
           LET r == Read(S, w) IN
           IF w.rid \notin DOMAIN S.resources THEN Raise(S, r)
           ELSE IF r.local.markdown_content # NoneVal THEN Proceed(S, r, "dispatch")
           ELSE IF r.local.file_type = NoneVal THEN Raise(S, r)
           ELSE Proceed(S, r, "update")
      [] w.pc = "update" ->
           Proceed([S EXCEPT !.resources[w.rid] = extract_markdown_content(w.local)],
                   w, "dispatch")
      [] OTHER -> Return(S, w, ExtractDispatch(w.rid), FALSE)

\* ChunkResourceText.execute
ChunkStep(S, w) ==
    CASE w.pc = "get" ->
           LET r == Read(S, w) IN
           IF \/ r.local.markdown_content \in {NoneVal, ""}
              \/ r.local.resource_type_id \notin resource_types
           THEN Raise(S, r)
           ELSE Proceed(S, r, "create")
      [] w.pc = "create" ->
           LET chunks == chunk_resource(w.rid, w.local) IN
           Proceed([S EXCEPT !.chunk_nodes = create_chunk_nodes(@, chunks),
                             !.node_order = created_order(@, chunks)],
                   w, "dispatch")
      [] OTHER -> Return(S, w, ChunkDispatch(w.rid), FALSE)

\* UpdateChunksWithEmbeddings.execute
EmbedStep(S, w) ==
    CASE w.pc = "get" ->
           LET ids == chunks_without_embeddings(S.chunk_nodes, w.rid) IN
           IF ids = {} THEN Return(S, w, << >>, FALSE)
           ELSE Proceed(S, [w EXCEPT !.todo = ids], "embed")
      [] w.pc = "embed" ->
           LET id == CHOOSE id \in w.todo : Position(w.todo, id) = 0
               embedding == generate_embedding(S.chunk_nodes[id].extract)
           IN Proceed([S EXCEPT !.chunk_nodes =
                                    update_chunk_embedding(@, id, embedding)],
                      [w EXCEPT !.todo = @ \ {id}],
                      IF w.todo = {id} THEN "dispatch" ELSE "embed")
      [] OTHER -> Return(S, w, EmbeddingsDispatch(w.rid), FALSE)

\* PostNewCollectionToSubscription.execute; the collection repository is
\* asked about the collections as they are stored when it is called.
PostCollectionStep(S, w) ==
    CASE w.pc = "get" ->
           IF w.request.subscription_id \notin DOMAIN subscriptions THEN Raise(S, w)
           ELSE IF ~(w.request.resource_type_ids \subseteq
                       subscriptions[w.request.subscription_id].resource_types)
           THEN Raise(S, w)
           ELSE Proceed(S, w, "check")
      [] w.pc = "check" ->
           IF get_collection_by_subscription_and_name(
                  w.request.subscription_id, w.request.name) # {}
           THEN Return(S, w, << >>, FALSE)
           ELSE Proceed(S, w, "create")
      [] OTHER ->
           Return([S EXCEPT !.collections =
                       create_new_collection(w.request.name,
                                             w.request.subscription_id,
                                             w.request.resource_type_ids)],
                  w, << >>, FALSE)

\* The next port call of a run.
Step(S, w) ==
    CASE w.stage = "initiate_processing" -> InitiateStep(S, w)
      [] w.stage = "initiate_graph"      -> GraphStep(S, w)
      [] w.stage = "extract_text"        -> ExtractStep(S, w)
      [] w.stage = "chunk_text"          -> ChunkStep(S, w)
      [] w.stage = "update_embeddings"   -> EmbedStep(S, w)
      [] OTHER                           -> PostCollectionStep(S, w)

\* What the stores hold after the run w has run to its end with no other
\* run in between.
RECURSIVE RunAlone(_, _)
RunAlone(S, w) ==
    IF w.pc = "done" THEN S
    ELSE LET r == Step(S, w) IN RunAlone(r.store, r.worker)

CurrentStore ==
    Store(resources, quarantined, resource_nodes, chunk_nodes, node_order,
          collections)

\* A run at the start of execute.
Started(stage, rid, scan, request) ==
    [IdleWorker EXCEPT !.stage = stage, !.pc = "get", !.rid = rid,
                       !.scan = scan, !.request = request, !.pre = CurrentStore]

AllIdle == \A w \in WorkerIds : workers[w].pc = "idle"

\* The scanner's answer to the runs of one delivery.
ScanAnswers(stage, rid) ==
    IF stage = "initiate_processing" /\ Scannable(rid)
    THEN scan_for_viruses(resources[rid].file) ELSE {NoneVal}

\* One stage message is delivered to two workers at once.
DeliverTwice(stage, rid) ==
    /\ AllIdle
    /\ queue[Msg(stage, rid)] > 0
    /\ redelivered < MaxRedeliver
    /\ redelivered' = redelivered + 1
    /\ \E scan \in ScanAnswers(stage, rid) :
          /\ workers' = [w \in WorkerIds |->
                            Started(stage, rid, scan, NoCollectionRequest)]
          /\ found_infected' =
                 IF scan = "INFECTED" THEN found_infected \cup {rid}
                 ELSE found_infected
    /\ queue' = [queue EXCEPT ![Msg(stage, rid)] = @ - 1]
    /\ UNCHANGED <<subscriptions, collections, resource_types, resources,
                   quarantined, resource_nodes, chunk_nodes, notifications,
                   last, completed, deleted_nodes, search_requests,
                   search_results, node_order, reposet>>

\* Two clients post the same new collection at once.
PostTwice(subscription_id, name, resource_type_ids) ==
    /\ AllIdle
    /\ Cardinality(DOMAIN collections) < MaxCollections
    /\ workers' =
           [w \in WorkerIds |->
               Started("post_new_collection", -1, NoneVal,
                       [subscription_id |-> subscription_id, name |-> name,
                        resource_type_ids |-> resource_type_ids])]
    /\ UNCHANGED <<storeVars, last, reposet>>

\* One run makes its next port call.
WorkerStep(i) ==
    /\ workers[i].pc \notin {"idle", "done"}
    /\ LET r == Step(CurrentStore, workers[i]) IN
       /\ resources' = r.store.resources
       /\ quarantined' = r.store.quarantined
       /\ resource_nodes' = r.store.resource_nodes
       /\ chunk_nodes' = r.store.chunk_nodes
       /\ node_order' = r.store.node_order
       /\ collections' = r.store.collections
       /\ workers' = [workers EXCEPT ![i] = r.worker]
       /\ notifications' = Dispatch(notifications, r.enq)
       /\ queue' = Dispatch(queue, StageMessages(r.enq))
    /\ UNCHANGED <<subscriptions, resource_types, redelivered, last,
                   found_infected, completed, deleted_nodes, search_requests,
                   search_results, reposet>>

\* Both runs have returned or raised; the workers are free again.
Finish ==
    /\ \A w \in WorkerIds : workers[w].pc = "done"
    /\ workers' = [w \in WorkerIds |-> IdleWorker]
    /\ UNCHANGED <<storeVars, last, reposet>>

\* ------------------------------------------------------------------ RepoSet
\* The keys the callers of the registry use, one of them unknown to it.
RegistryKeys ==
    {"graph_repository", "search_repository", "dumb_repo", "unknown_repository"}

\* The port instances config.py assigns.
PortInstances == {"django", "mock"}

\* RepoSet.__getitem__: the dict lookup, which raises KeyError for a missing key.
getitem(key) ==
    /\ last' = Call("getitem", key,
                    IF key \in DOMAIN reposet THEN reposet[key] ELSE "KeyError")
    /\ UNCHANGED <<storeVars, reposet, workers>>

\* RepoSet.__setitem__
setitem(key, value) ==
    /\ reposet' =
           IF key \in DOMAIN reposet THEN [reposet EXCEPT ![key] = value]
           ELSE reposet
    /\ last' = Call("setitem", key,
                    IF key \in DOMAIN reposet THEN "None" ELSE "KeyError")
    /\ UNCHANGED <<storeVars, workers>>

\* RepoSet.__delitem__: del on the dict, which raises KeyError for a missing key.
delitem(key) ==
    /\ reposet' = Without(reposet, key)
    /\ last' = Call("delitem", key,
                    IF key \in DOMAIN reposet THEN "None" ELSE "KeyError")
    /\ UNCHANGED <<storeVars, workers>>

\* ------------------------------------------------------------- specification
\* What clients send: also an unknown collection and an unknown resource type.
RequestCollectionIds == CollectionIds \cup {"c0"}
RequestResourceTypeIds == ResourceTypeIds \cup {"t0"}

Next ==
    \/ \E c \in RequestCollectionIds, t \in RequestResourceTypeIds,
          f \in FileContents, w \in WebhookLists :
          PostNewResourceToCollection(c, t, f, w)
    \/ \E rid \in ResourceIds, redeliver \in BOOLEAN :
          InitiateProcessingOfNewResource(rid, redeliver)
    \/ \E rid \in ResourceIds, redeliver \in BOOLEAN :
          InitialiseResourceGraph(rid, redeliver)
    \/ \E rid \in ResourceIds, redeliver \in BOOLEAN :
          ExtractPlainTextOfResource(rid, redeliver)
    \/ \E rid \in ResourceIds, redeliver \in BOOLEAN :
          ChunkResourceText(rid, redeliver)
    \/ \E rid \in ResourceIds, redeliver \in BOOLEAN :
          UpdateChunksWithEmbeddings(rid, redeliver)
    \/ \E rid \in ResourceIds, redeliver \in BOOLEAN :
          VentilateResourceProcessing(rid, redeliver)

Spec == Init /\ [][Next]_vars

\* The management use cases, with the ingest stages a delete depends on.
ManagedSubscriptionIds == {SubscriptionUuids[i] : i \in 1 .. MaxSubscriptions}
ManagedCollectionIds == {CollectionUuids[i] : i \in 1 .. MaxCollections}

CrudNext ==
    \/ \E t \in {{"t1"}, {"t0"}} : PostNewSubscription("S", t, "active")
    \/ \E s \in ManagedSubscriptionIds : GetSubscriptionDetails(s)
    \/ \E s \in ManagedSubscriptionIds : DeleteSubscription(s)
    \/ \E s \in ManagedSubscriptionIds, n \in {"C", "D"}, t \in {{"t1"}, {"t2"}} :
          PostNewCollectionToSubscription(s, n, t)
    \/ \E c \in ManagedCollectionIds : DeleteCollection(c)
    \/ \E c \in ManagedCollectionIds :
          PostNewResourceToCollection(c, "t1", "txt", << >>)
    \/ \E rid \in ResourceIds : InitiateProcessingOfNewResource(rid, FALSE)
    \/ \E rid \in ResourceIds : InitialiseResourceGraph(rid, FALSE)
    \/ \E rid \in ResourceIds : DeleteResource(rid)

CrudSpec == Init /\ [][CrudNext]_vars

\* The query use cases, with the ingest stages that fill the graph.
QueryNext ==
    \/ \E f \in {"txt", "blank"} : PostNewResourceToCollection("c1", "t1", f, << >>)
    \/ \E rid \in ResourceIds : InitiateProcessingOfNewResource(rid, FALSE)
    \/ \E rid \in ResourceIds : InitialiseResourceGraph(rid, FALSE)
    \/ \E rid \in ResourceIds : ExtractPlainTextOfResource(rid, FALSE)
    \/ \E rid \in ResourceIds : ChunkResourceText(rid, FALSE)
    \/ \E rid \in ResourceIds : UpdateChunksWithEmbeddings(rid, FALSE)
    \/ \E c \in RequestCollectionIds, q \in Queries : PostQueryOnCollecton(c, q)
    \/ \E rid \in 0 .. MaxResources, q \in Queries :
          PostQueryOnResource(rid, q, <<"a">>)
    \/ \E sid \in SearchIds, dispatched \in BOOLEAN :
          InitiateSearchRequest(sid, dispatched)
    \/ \E sid \in SearchIds, computed \in BOOLEAN :
          IdentifyRelatedContent(sid, computed)
    \/ \E sid \in SearchIds : IssueCredentials(sid)
    \/ \E sid \in SearchIds : GetQueryResult(sid)

QuerySpec == Init /\ [][QueryNext]_vars

\* Searches over a graph that holds the chunks of two processed resources.
SearchedResourceIds == {0, 1}
SearchedCollectionIds == {"c1", "c2"}

\* A resource as the ingest stages leave it: typed and extracted.
ProcessedResource(collection_id, file) ==
    extract_markdown_content(
        DetectedResource(create_new_resource(collection_id, "t1", file, << >>)))

\* The graph after the chunk stage ran for the resources in the given order.
RECURSIVE ChunkedGraph(_, _)
ChunkedGraph(rs, order) ==
    IF order = << >> THEN [chunk_nodes |-> << >>, node_order |-> << >>]
    ELSE LET g == ChunkedGraph(rs, SubSeq(order, 1, Len(order) - 1))
             rid == order[Len(order)]
             chunks == chunk_resource(rid, rs[rid])
         IN [chunk_nodes |-> create_chunk_nodes(g.chunk_nodes, chunks),
             node_order |-> created_order(g.node_order, chunks)]

SearchInit ==
    \E f0 \in {"txt", "pdf"}, f1 \in {"txt", "pdf"},
       c \in SearchedCollectionIds, order \in {<<0, 1>>, <<1, 0>>, <<0>>} :
        LET rs == (0 :> ProcessedResource("c1", f0)) @@ (1 :> ProcessedResource(c, f1))
            g == ChunkedGraph(rs, order)
        IN
        /\ subscriptions =
               [s \in SubscriptionIds |->
                   [name |-> "S", is_active |-> TRUE, resource_types |-> {"t1"}]]
        /\ collections =
               [k \in SearchedCollectionIds |->
                   [subscription_id |-> "s1",
                    name |-> IF k = "c1" THEN "C" ELSE "D",
                    resource_types |-> {"t1"}]]
        /\ resource_types = ResourceTypeIds
        /\ resources = rs
        /\ quarantined = {}
        /\ resource_nodes = SearchedResourceIds
        /\ chunk_nodes = g.chunk_nodes
        /\ node_order = g.node_order
        /\ notifications = [m \in Messages |-> 0]
        /\ queue = [m \in Messages |-> 0]
        /\ redelivered = 0
        /\ last = NoInvocation
        /\ found_infected = {}
        /\ completed = {}
        /\ deleted_nodes = {}
        /\ search_requests = << >>
        /\ search_results = << >>
        /\ reposet = [key \in AllowableKeys |-> NoneVal]
        /\ workers = [w \in WorkerIds |-> IdleWorker]

SearchNext ==
    \/ \E c \in SearchedCollectionIds, q \in {"", "q"} : PostQueryOnCollecton(c, q)
    \/ \E rid \in SearchedResourceIds : PostQueryOnResource(rid, "q", << >>)
    \/ \E sid \in SearchIds, computed \in BOOLEAN :
          IdentifyRelatedContent(sid, computed)
    \/ \E sid \in SearchIds : GetQueryResult(sid)

SearchSpec == SearchInit /\ [][SearchNext]_vars

\* Duplicate deliveries and simultaneous posts, run port call by port call;
\* between them the stages run one at a time.
ConcurrentNext ==
    \/ AllIdle /\ \E f \in {"txt", "virus"} :
          PostNewResourceToCollection("c1", "t1", f, << >>)
    \/ AllIdle /\ \E rid \in ResourceIds : InitiateProcessingOfNewResource(rid, FALSE)
    \/ AllIdle /\ \E rid \in ResourceIds : InitialiseResourceGraph(rid, FALSE)
    \/ AllIdle /\ \E rid \in ResourceIds : ExtractPlainTextOfResource(rid, FALSE)
    \/ AllIdle /\ \E rid \in ResourceIds : ChunkResourceText(rid, FALSE)
    \/ AllIdle /\ \E rid \in ResourceIds : UpdateChunksWithEmbeddings(rid, FALSE)
    \/ \E stage \in StageKinds \ {"ventilate_processing"}, rid \in ResourceIds :
          DeliverTwice(stage, rid)
    \/ \E i \in WorkerIds : WorkerStep(i)
    \/ Finish

ConcurrentSpec == Init /\ [][ConcurrentNext]_vars

\* Collections posted one at a time and two at a time.
PostRaceNext ==
    \/ AllIdle /\ \E n \in {"C", "D"}, t \in {{"t1"}, {"t2"}} :
          PostNewCollectionToSubscription("s1", n, t)
    \/ AllIdle /\ \E c \in ManagedCollectionIds : DeleteCollection(c)
    \/ \E n \in {"C", "D"}, t \in {{"t1"}, {"t2"}} : PostTwice("s1", n, t)
    \/ \E i \in WorkerIds : WorkerStep(i)
    \/ Finish

PostRaceSpec == Init /\ [][PostRaceNext]_vars

\* The registry under the operations of its callers.
RepoSetNext ==
    \/ \E key \in RegistryKeys : getitem(key)
    \/ \E key \in RegistryKeys, value \in PortInstances : setitem(key, value)
    \/ \E key \in RegistryKeys : delitem(key)

RepoSetSpec == Init /\ [][RepoSetNext]_vars

TypeOK ==
    /\ DOMAIN resources \subseteq ResourceIds
    /\ \A m \in Messages : queue[m] <= notifications[m]
    /\ redelivered \in 0 .. MaxRedeliver

\* =========================================================== the claims
\* The ingest stages in their fixed order.
Successor(stage) ==
    CASE stage = "initiate_processing" -> "initiate_graph"
      [] stage = "initiate_graph"      -> "extract_text"
      [] stage = "extract_text"        -> "chunk_text"
      [] stage = "chunk_text"          -> "update_embeddings"
      [] stage = "update_embeddings"   -> "ventilate_processing"
      [] OTHER                         -> NoneVal

Predecessor(stage) ==
    CASE stage = "initiate_graph"       -> "initiate_processing"
      [] stage = "extract_text"         -> "initiate_graph"
      [] stage = "chunk_text"           -> "extract_text"
      [] stage = "update_embeddings"    -> "chunk_text"
      [] stage = "ventilate_processing" -> "update_embeddings"
      [] OTHER                          -> NoneVal

Enqueued(inv, kind) == Occurrences(inv.enq, Msg(kind, inv.rid))

\* The last run was InitiateProcessingOfNewResource on an existing resource
\* with a non-empty file, and the scan returned `result`.
InitiateScanned(result) ==
    /\ last.stage = "initiate_processing"
    /\ last.found
    /\ last.pre.file \notin {NoneVal, ""}
    /\ last.input.scan = result

\* C1: when InitiateProcessingOfNewResource finds the file INFECTED, the
\* resource is in quarantine, its stored file is null, one quarantine
\* notification was enqueued, the run raised and InitialiseResourceGraph was
\* not enqueued.
C1_InfectedIsQuarantined ==
    InitiateScanned("INFECTED") =>
        /\ last.rid \in quarantined
        /\ resources[last.rid].file = NoneVal
        /\ Enqueued(last, "quarantine") = 1
        /\ notifications[Msg("quarantine", last.rid)] >= 1
        /\ last.outcome = "raised"
        /\ Enqueued(last, "initiate_graph") = 0

C1_Witness == InitiateScanned("INFECTED")

\* C2: a resource found INFECTED has status quarantined and a null file.
C2_InfectedHasStatusQuarantined ==
    \A r \in found_infected :
        /\ resources[r].status = "quarantined"
        /\ resources[r].file = NoneVal

\* The chunk nodes of resource r.
ChunksOf(nodes, r) == {id \in DOMAIN nodes : nodes[id].resource_id = r}

\* C3: once a resource was found INFECTED, no step creates a chunk for it or
\* enqueues InitialiseResourceGraph, ExtractPlainText, ChunkResourceText,
\* UpdateChunksWithEmbeddings or VentilateResourceProcessing for it.
C3_NothingAfterInfected ==
    [][\A r \in found_infected :
          /\ ChunksOf(chunk_nodes', r) \subseteq ChunksOf(chunk_nodes, r)
          /\ \A k \in StageKinds \ {"initiate_processing"} :
                notifications'[Msg(k, r)] = notifications[Msg(k, r)]]_vars

\* Resource r is virus-free, was never found infected, and every stage up to
\* the embedding of at least one chunk returned normally for it.
HappyPath(r) ==
    /\ r \in DOMAIN resources
    /\ resources[r].file \in {"txt", "pdf"}
    /\ r \notin found_infected
    /\ \A k \in StageKinds \ {"ventilate_processing"} : <<k, r>> \in completed
    /\ ChunksOf(chunk_nodes, r) # {}
    /\ get_chunks_without_embeddings(r) = {}

\* Every message was delivered and VentilateResourceProcessing ran last.
Settled(r) ==
    /\ \A m \in Messages : queue[m] = 0
    /\ last.stage = "ventilate_processing"
    /\ last.rid = r

\* C4: when the pipeline of a clean, valid resource has settled after every
\* stage succeeded, the resource has status ready.
C4_SettlesReady ==
    \A r \in ResourceIds :
        (HappyPath(r) /\ Settled(r)) => resources[r].status = "ready"

\* C5: a stage enqueues no stage message but its immediate successor, and
\* only when it returns normally; a stage message exists for a resource only
\* if the predecessor stage returned normally for that resource.
C5_OnlyTheSuccessor ==
    /\ last.stage \in StageKinds =>
          \A i \in 1 .. Len(last.enq) :
              last.enq[i][1] \in StageKinds =>
                  /\ last.enq[i] = Msg(Successor(last.stage), last.rid)
                  /\ last.outcome # "raised"
    /\ \A r \in ResourceIds, k \in StageKinds \ {"initiate_processing"} :
          notifications[Msg(k, r)] > 0 => <<Predecessor(k), r>> \in completed

C5_Witness ==
    \E r \in ResourceIds : notifications[Msg("ventilate_processing", r)] > 0

\* C6: when the scan returns ERROR the run raises, the file type is as it
\* was, and InitialiseResourceGraph is not enqueued.
C6_ScanErrorFails ==
    InitiateScanned("ERROR") =>
        /\ last.outcome = "raised"
        /\ resources[last.rid].file_type = last.pre.file_type
        /\ Enqueued(last, "initiate_graph") = 0

\* C7: when a clean resource with a known file type fails format validation,
\* the run raises, a validation-error notification is enqueued and
\* InitialiseResourceGraph is not.
C7_InvalidFormatNotifies ==
    (InitiateScanned("CLEAN") /\ last.pre.file_type # NoneVal
        /\ last.input.port = "False") =>
        /\ last.outcome = "raised"
        /\ Enqueued(last, "validation_error") = 1
        /\ Enqueued(last, "initiate_graph") = 0

\* C8: for a clean resource with no file type the detected MIME type is
\* stored and exactly one InitialiseResourceGraph message is enqueued; the
\* message never exists while the stored file type is still unset.
C8_TypeStoredThenGraph ==
    /\ (InitiateScanned("CLEAN") /\ last.pre.file_type = NoneVal) =>
          /\ resources[last.rid].file_type = detect_file_type(last.pre.file)
          /\ resources[last.rid].file_type # NoneVal
          /\ Enqueued(last, "initiate_graph") = 1
          /\ Len(last.enq) = 1
    /\ \A r \in ResourceIds :
          notifications[Msg("initiate_graph", r)] > 0 =>
              resources[r].file_type # NoneVal

C8_Witness == InitiateScanned("CLEAN") /\ last.pre.file_type = NoneVal

\* The number of stage messages the last run and the run before it enqueued.
EnqueuedByBoth == last.before + Len(StageMessages(last.enq))

\* C9 as claimed: a stage run twice in sequence on the same resource with
\* the same port answers enqueues its successor at most once in total.
C9_ReplayEnqueuesOnceInTotal ==
    (last.stage \in StageKinds /\ last.again) => EnqueuedByBoth <= 1

\* C9 amended: every run of a stage enqueues at most one stage message, so a
\* stage run twice in sequence enqueues its successor at most twice.
C9_ReplayEnqueuesOncePerRun ==
    last.stage \in StageKinds =>
        /\ Len(StageMessages(last.enq)) <= 1
        /\ last.again => EnqueuedByBoth <= 2

C9_Witness ==
    /\ last.stage \in StageKinds
    /\ last.again
    /\ EnqueuedByBoth = 2

\* C10: a ChunkResourceText run for a resource whose ingest has completed
\* (its chunks are embedded and no message is waiting) leaves the chunk nodes
\* as they were, so no chunk lacks an embedding.
C10_ReplayKeepsChunks ==
    [][(/\ last'.stage = "chunk_text"
        /\ last'.outcome = "None"
        /\ <<"update_embeddings", last'.rid>> \in completed
        /\ \A m \in Messages : queue[m] = 0)
       => (/\ chunk_nodes' = chunk_nodes
           /\ \A id \in ChunksOf(chunk_nodes', last'.rid) :
                 chunk_nodes'[id].embedding # NoEmbedding)]_vars

\* The last run was the given stage on a resource that exists.
RanOn(stage) == last.stage = stage /\ last.found

\* C11: ExtractPlainTextOfResource on a resource whose markdown_content is
\* set asks for no extraction, leaves the stored resource as it was, returns
\* normally and enqueues ChunkResourceText for it (and nothing else).
C11_ExtractSkipsWhenExtracted ==
    (RanOn("extract_text") /\ last.pre.markdown_content # NoneVal) =>
        /\ last.input = NoInput
        /\ resources[last.rid] = last.pre
        /\ last.outcome = "None"
        /\ last.enq = <<Msg("chunk_text", last.rid)>>

C11_Witness ==
    /\ RanOn("extract_text")
    /\ last.pre.markdown_content # NoneVal
    /\ Enqueued(last, "chunk_text") = 1

\* C12: when the extraction fails, the resource is marked failed and
\* ChunkResourceText is not enqueued.
C12_ExtractionFailureMarksFailed ==
    (RanOn("extract_text") /\ last.input.port = "False") =>
        /\ resources[last.rid].status = "failed"
        /\ Enqueued(last, "chunk_text") = 0

\* C13: when UpdateChunksWithEmbeddings has returned normally for a
\* resource, every chunk of that resource has an embedding.
C13_AllChunksEmbedded ==
    (last.stage = "update_embeddings" /\ last.outcome # "raised") =>
        \A id \in ChunksOf(chunk_nodes, last.rid) :
            chunk_nodes[id].embedding # NoEmbedding

C13_Witness ==
    /\ last.stage = "update_embeddings"
    /\ last.outcome = "None"
    /\ Cardinality(ChunksOf(chunk_nodes, last.rid)) = 2

\* Every chunk of resource r has an embedding (or r has no chunk).
AllEmbedded(nodes, r) ==
    \A id \in ChunksOf(nodes, r) : nodes[id].embedding # NoEmbedding

\* C14: an UpdateChunksWithEmbeddings run that finds no chunk of the
\* resource without an embedding returns True, changes no chunk and hands
\* nothing to the dispatcher.
C14_NothingToEmbedIsNoOp ==
    [][(last'.stage = "update_embeddings" /\ AllEmbedded(chunk_nodes, last'.rid))
       => (/\ last'.outcome = "True"
           /\ last'.input = NoInput
           /\ chunk_nodes' = chunk_nodes
           /\ last'.enq = << >>
           /\ notifications' = notifications)]_vars

C14_Witness ==
    /\ last.stage = "update_embeddings"
    /\ last.outcome = "True"
    /\ ChunksOf(chunk_nodes, last.rid) # {}

\* C15: when an embedding fails for a chunk, the resource is marked failed
\* and VentilateResourceProcessing is not enqueued.
C15_EmbeddingFailureMarksFailed ==
    (RanOn("update_embeddings") /\ last.input.failAt >= 0) =>
        /\ resources[last.rid].status = "failed"
        /\ Enqueued(last, "ventilate_processing") = 0

\* The distinct callback URLs of a resource.
UniqueUrls(resource) ==
    {resource.callback_urls[i] : i \in 1 .. Len(resource.callback_urls)}

\* C16: one VentilateResourceProcessing run delivers as many notifications
\* as the resource has distinct callback URLs.
C16_OneNotificationPerUniqueUrl ==
    RanOn("ventilate_processing") =>
        Len(last.enq) = Cardinality(UniqueUrls(last.pre))

\* C17: however often VentilateResourceProcessing is replayed for a clean
\* resource, the same notification is not delivered a second time.
C17_ReplayDeliversNoDuplicate ==
    \A r \in DOMAIN resources \ found_infected :
        notifications[Msg("quarantine", r)] <= 1

\* C18: VentilateResourceProcessing on a missing resource or on a resource
\* without callback URLs returns the empty list, sends nothing and does not
\* raise.
C18_NothingToNotifyIsNoOp ==
    (last.stage = "ventilate_processing"
        /\ (~last.found \/ last.pre.callback_urls = << >>)) =>
        /\ last.outcome = "[]"
        /\ last.enq = << >>

\* The upload request names no collection, an unknown resource type, or a
\* resource type its collection does not allow.
InvalidUpload(request) ==
    \/ request.collection_id \notin DOMAIN collections
    \/ request.resource_type_id \notin resource_types
    \/ request.resource_type_id
           \notin collections[request.collection_id].resource_types

\* The last run was an upload that raised, created no resource and
\* enqueued nothing.
UploadRejected ==
    /\ last.outcome = "raised"
    /\ last.rid \notin DOMAIN resources
    /\ last.enq = << >>

\* C19: an upload to a collection that does not exist, of an unknown
\* resource type or of a type the collection does not allow is rejected;
\* the resource type of every stored resource is allowed by its collection.
C19_InvalidUploadRejected ==
    /\ (last.stage = "post_new_resource" /\ InvalidUpload(last.request))
          => UploadRejected
    /\ \A r \in DOMAIN resources :
          /\ resources[r].collection_id \in DOMAIN collections
          /\ resources[r].resource_type_id
                 \in collections[resources[r].collection_id].resource_types

C19_Witness ==
    /\ last.stage = "post_new_resource"
    /\ last.request.collection_id \in DOMAIN collections
    /\ last.request.resource_type_id \in resource_types
    /\ InvalidUpload(last.request)
    /\ UploadRejected

\* C20: an upload with empty file bytes is rejected.
C20_EmptyUploadRejected ==
    (last.stage = "post_new_resource" /\ last.request.file_content = "")
        => UploadRejected

\* No two stored collections have the same subscription and name.
UniqueNames(store) ==
    \A c1, c2 \in DOMAIN store :
        (/\ store[c1].subscription_id = store[c2].subscription_id
         /\ store[c1].name = store[c2].name) => c1 = c2

\* C21: no step leaves two collections of one subscription with the same
\* name; PostNewCollectionToSubscription with a name the subscription
\* already has creates nothing and returns no collection.
C21_CollectionNamesUnique ==
    [][/\ UniqueNames(collections')
       /\ (/\ last'.stage = "post_new_collection"
           /\ \E c \in DOMAIN collections :
                 /\ collections[c].subscription_id = last'.target
                 /\ collections[c].name = last'.request.name)
          => (collections' = collections /\ last'.outcome # "response")]_vars

C21_Witness ==
    /\ last.stage = "post_new_collection"
    /\ last.outcome = "None"
    /\ get_collection_by_subscription_and_name(last.target, last.request.name) # {}

\* C22: a created subscription is found by id; DeleteSubscription returns
\* success exactly when the subscription was stored and leaves it not
\* stored, so a delete or a get right after a delete of the same id returns
\* success=false, respectively not found.
C22_SubscriptionRoundTrip ==
    [][/\ (last'.stage = "post_new_subscription" /\ last'.outcome = "response")
          => last'.target \in DOMAIN subscriptions'
       /\ last'.stage = "get_subscription_details"
          => /\ (last'.outcome = "response") <=> (last'.target \in DOMAIN subscriptions)
             /\ (last.stage = "delete_subscription" /\ last.target = last'.target)
                   => last'.outcome = "None"
       /\ last'.stage = "delete_subscription"
          => /\ (last'.outcome = "True") <=> (last'.target \in DOMAIN subscriptions)
             /\ last'.target \notin DOMAIN subscriptions'
             /\ (last.stage = "delete_subscription" /\ last.target = last'.target)
                   => last'.outcome = "False"]_vars

C22_Witness ==
    /\ last.stage = "delete_subscription"
    /\ last.outcome = "True"
    /\ last.target = "s2"

\* C23: the subscription of every stored collection and the collection of
\* every stored resource are stored.
C23_DeletesCascade ==
    /\ \A c \in DOMAIN collections :
          collections[c].subscription_id \in DOMAIN subscriptions
    /\ \A r \in DOMAIN resources :
          resources[r].collection_id \in DOMAIN collections

\* C24: a DeleteResource that returns success has removed the resource from
\* the resource store and left its graph node in place, marked is_deleted;
\* DeleteResource on a resource whose node is marked, in particular right
\* after a successful delete of the same id, returns success=False.
C24_DeleteResourceIsSoftInGraph ==
    [][last'.stage = "delete_resource"
       => /\ last'.outcome = "True"
                => /\ last'.rid \notin DOMAIN resources'
                   /\ last'.rid \in resource_nodes'
                   /\ last'.rid \in deleted_nodes'
          /\ last'.rid \in deleted_nodes => last'.outcome = "False"
          /\ (/\ last.stage = "delete_resource"
              /\ last.rid = last'.rid
              /\ last.outcome = "True") => last'.outcome = "False"]_vars

C24_Witness ==
    /\ last.stage = "delete_resource"
    /\ last.outcome = "True"
    /\ last.rid \in deleted_nodes

\* C25: when the graph soft delete fails, DeleteResource returns
\* success=False and the resource is still stored, as it was.
C25_GraphFailureKeepsResource ==
    (last.stage = "delete_resource" /\ last.found /\ last.input.port = "False")
        => /\ last.outcome = "False"
           /\ last.rid \in DOMAIN resources
           /\ resources[last.rid] = last.pre

C25_Witness ==
    /\ last.stage = "delete_resource"
    /\ last.found
    /\ last.input.port = "False"
    /\ last.rid \in resource_nodes

\* The last run was PostQueryOnCollecton or PostQueryOnResource.
PostedQuery(inv) ==
    inv.stage \in {"post_query_on_collection", "post_query_on_resource"}

\* The query is empty or whitespace, or it names a collection or resource
\* that is not stored.
InvalidQuery(inv) ==
    \/ inv.request.query \in {"", " "}
    \/ inv.stage = "post_query_on_collection" /\ inv.target \notin DOMAIN collections
    \/ inv.stage = "post_query_on_resource" /\ inv.target \notin DOMAIN resources

\* C26: PostQueryOnCollecton and PostQueryOnResource raise on an empty or
\* whitespace query and on an unknown collection or resource, and save no
\* search request then.
C26_InvalidQueryRejected ==
    [][(PostedQuery(last') /\ InvalidQuery(last'))
       => (last'.outcome = "raised" /\ search_requests' = search_requests)]_vars

C26_Witness ==
    /\ PostedQuery(last)
    /\ last.request.query = " "
    /\ last.outcome = "raised"
    /\ (last.stage = "post_query_on_collection" => last.target \in DOMAIN collections)
    /\ (last.stage = "post_query_on_resource" => last.target \in DOMAIN resources)

\* C27: InitiateSearchRequest on a stored search request enqueues exactly
\* one message, the VectoriseTheSearchQuery stage of that search; on a
\* missing search request or a failing dispatch it returns success=False
\* and enqueues nothing.
C27_InitiateEnqueuesVectorise ==
    last.stage = "initiate_search_request" =>
        IF last.found /\ last.input.port = "True"
        THEN /\ last.outcome = "True"
             /\ last.enq = <<Msg("vectorise_the_search_query", last.rid)>>
        ELSE /\ last.outcome = "False"
             /\ last.enq = << >>

\* C28: a search request accepted by PostQueryOnCollecton or
\* PostQueryOnResource has been handed to the query pipeline: a message for
\* it was given to the dispatcher.
C28_AcceptedQueryIsDispatched ==
    (PostedQuery(last) /\ last.outcome = "response") =>
        \E m \in Messages : m[2] = last.rid /\ notifications[m] > 0

\* C29: after IdentifyRelatedContent succeeded for a search, the results
\* stored for that search are not empty.
C29_IdentifiedResultsStored ==
    (last.stage = "identify_related_content" /\ last.outcome = "True") =>
        ResultsOf(last.rid) # << >>

\* C30: when there is no candidate chunk, IdentifyRelatedContent succeeds
\* and the search ends ready with an empty result list.
C30_NoCandidatesIsReady ==
    (/\ last.stage = "identify_related_content"
     /\ last.found
     /\ get_relevant_chunks(last.rid) = << >>) =>
        /\ last.outcome = "True"
        /\ search_requests[last.rid].status = "ready"
        /\ ResultsOf(last.rid) = << >>

\* The related chunks the last IdentifyRelatedContent run returned.
Ranked == last.stage = "identify_related_content" /\ last.outcome = "True"

\* C31: the related chunks of a search are in descending order of score,
\* equal scores in ascending order of chunk sequence and then of resource id,
\* whatever the order in which the graph stores the chunks.
C31_RankedByScoreSequenceResource ==
    Ranked =>
        \A i, j \in 1 .. Len(last.related) :
            i < j =>
                LET a == last.related[i]
                    b == last.related[j]
                IN \/ score(a) > score(b)
                   \/ score(a) = score(b) /\ a[2] < b[2]
                   \/ score(a) = score(b) /\ a[2] = b[2] /\ a[1] < b[1]

\* C32: the related chunks of a search belong to resources of the search's
\* collection, and to its resource_ids when it names any.
C32_ResultsWithinSearchScope ==
    Ranked =>
        \A i \in 1 .. Len(last.related) :
            LET rid == chunk_nodes[last.related[i]].resource_id
                request == search_requests[last.rid]
            IN /\ resources[rid].collection_id = request.collection_id
               /\ request.resource_ids # {} => rid \in request.resource_ids

\* C33: the keys of the registry are those of its construction after any
\* lookup, assignment and deletion; an assignment to an unknown key raises
\* KeyError, and so does a lookup of an unknown key.
C33_RegistryKeysFixed ==
    /\ DOMAIN reposet = AllowableKeys
    /\ (last.stage \in {"getitem", "setitem"} /\ last.target \notin AllowableKeys)
           => last.outcome = "KeyError"

\* What the stage before the given one has written for resource r.
EffectsVisible(kind, r) ==
    /\ r \in DOMAIN resources
    /\ CASE kind = "initiate_graph" -> resources[r].file_type # NoneVal
         [] kind = "extract_text" -> r \in resource_nodes
         [] kind = "chunk_text" -> resources[r].markdown_content # NoneVal
         [] kind = "update_embeddings" ->
                DOMAIN chunk_resource(r, resources[r]) \subseteq DOMAIN chunk_nodes
         [] kind = "ventilate_processing" -> AllEmbedded(chunk_nodes, r)
         [] OTHER -> TRUE

\* C34: whenever a message for a stage exists for a resource, what the stage
\* before it writes (file_type, graph node, markdown_content, chunk nodes,
\* embeddings) is in the stores, and a stage run that raised has enqueued no
\* successor.
C34_EffectsBeforeSuccessor ==
    /\ \A r \in ResourceIds, kind \in StageKinds :
          notifications[Msg(kind, r)] > 0 => EffectsVisible(kind, r)
    /\ (last.stage \in StageKinds /\ last.outcome = "raised"
           /\ Successor(last.stage) # NoneVal)
          => Enqueued(last, Successor(last.stage)) = 0

\* C36: every message handed to the task dispatcher is of a kind that a
\* worker task consumes.
C36_EveryMessageHasAWorkerTask ==
    \A m \in Messages : notifications[m] > 0 => TaskOf(m[1]) \in WorkerTasks

\* C37: a quarantine notification is dispatched for an id only if the id is
\* a resource whose scan returned INFECTED.
C37_QuarantineOnlyForInfected ==
    \A id \in ResourceIds \cup SearchIds :
        notifications[Msg("quarantine", id)] > 0 => id \in found_infected

\* C38: an UpdateChunksWithEmbeddings run asks for no embedding of a chunk
\* that has one and leaves such a chunk as it is, and when it returns
\* normally every chunk of the resource has an embedding.
C38_RerunEmbedsOnlyTheMissing ==
    [][last'.stage = "update_embeddings"
       => /\ \A id \in DOMAIN chunk_nodes :
                 chunk_nodes[id].embedding # NoEmbedding
                     => /\ id \notin last'.embedded
                        /\ chunk_nodes'[id] = chunk_nodes[id]
          /\ last'.outcome # "raised" => AllEmbedded(chunk_nodes', last'.rid)]_vars

\* A run that returned normally after embedding the one chunk that an
\* earlier, failed run had left without an embedding.
C38_Witness ==
    /\ last.stage = "update_embeddings"
    /\ last.outcome = "None"
    /\ Cardinality(last.embedded) = 1
    /\ Cardinality(ChunksOf(chunk_nodes, last.rid)) = 2
    /\ AllEmbedded(chunk_nodes, last.rid)

BothDone == \A w \in WorkerIds : workers[w].pc = "done"

\* C35: when two runs of one ingest stage for one resource, started together
\* and interleaved port call by port call, have both ended, the stores hold
\* what they hold after a single run of the stage.
C35_ConcurrentDuplicateIsIdempotent ==
    (BothDone /\ workers[1].stage \in StageKinds) =>
        CurrentStore = RunAlone(workers[1].pre, [workers[1] EXCEPT !.pc = "get",
                                   !.local = NullResource, !.todo = {},
                                   !.raised = FALSE])

\* Two extraction runs that both read the resource before either had
\* written it, and both wrote it.
C35_Witness ==
    /\ BothDone
    /\ workers[1].stage = "extract_text"
    /\ \A w \in WorkerIds :
          /\ ~workers[w].raised
          /\ workers[w].local.markdown_content = NoneVal
          /\ workers[w].local.file_type # NoneVal
    /\ resources[workers[1].rid].markdown_content # NoneVal

\* C40: when two PostNewCollectionToSubscription runs for one subscription
\* and one name, interleaved between the existence check and the create, have
\* both ended, at most one collection was created.
C40_AtMostOneCreates ==
    (BothDone /\ workers[1].stage = "post_new_collection") =>
        /\ Cardinality(DOMAIN collections)
               <= Cardinality(DOMAIN workers[1].pre.collections) + 1
        /\ Cardinality(get_collection_by_subscription_and_name(
               workers[1].request.subscription_id, workers[1].request.name)) <= 1

====
